---- MODULE Spec2Model ----
(***************************************************************************)
(* ArticleView (src/components/ArticleView.tsx): the page orchestrator     *)
(* (loadPageData), the heading extractor (headings/scan), the scroll-spy   *)
(* (IntersectionObserver effect) and scrollToHeading, over the block trees *)
(* and page metadata returned by services/notionService.                   *)
(*                                                                         *)
(* The JavaScript event loop is modelled by pc: one task runs at a time,   *)
(* statement by statement, and no other task starts before it ends         *)
(* (pc.op = "idle").  A task that changed state a dependency list reads is *)
(* followed by React's commit (the DOM is rebuilt) and by the effects      *)
(* whose dependencies changed.  State updates made in one task are         *)
(* rendered together, at the commit that follows the task.                 *)
(*                                                                         *)
(* Spec is the component over two articles.  The other specifications run  *)
(* one part on generated inputs: SpecHeadings and SpecPage and             *)
(* SpecContainers (scan and NotionBlockRenderer over block trees),         *)
(* SpecMermaid (the Mermaid component), SpecRichText (renderRichText),    *)
(* SpecService (getPageBlocks of services/notionService) and SpecLoad      *)
(* (loadPageData with requests that may be rejected, under fairness).      *)
(***************************************************************************)
EXTENDS Integers, Sequences, FiniteSets, TLC

(***************************************************************************)
(* Bounds of the model.                                                    *)
(***************************************************************************)
\* loads started over one behaviour (the mount and the changes of article.id)
MaxLoads == 2
\* entries handed to one IntersectionObserver callback
MaxEntries == 2
\* blocks of a generated block tree (SpecHeadings)
MaxNodes == 4
\* blocks of a generated page (SpecPage, SpecContainers)
MaxBlocks == 3
\* changes of the chart prop of one Mermaid instance (SpecMermaid)
MaxChartChanges == 2
\* spans of a generated rich-text sequence (SpecRichText)
MaxSpans == 2

(***************************************************************************)
(* Block kinds.  A kind is its type string split at '_', which is how the  *)
(* code reads it: item.type.startsWith('heading_'), item.type.split('_').  *)
(***************************************************************************)
heading_1 == <<"heading", "1">>
heading_2 == <<"heading", "2">>
heading_3 == <<"heading", "3">>
paragraph == <<"paragraph">>
bulleted_list_item == <<"bulleted", "list", "item">>
numbered_list_item == <<"numbered", "list", "item">>
to_do == <<"to", "do">>
toggle == <<"toggle">>
column_list == <<"column", "list">>
column == <<"column">>
quote == <<"quote">>
callout == <<"callout">>
synced_block == <<"synced", "block">>
divider == <<"divider">>
code == <<"code">>
\* a kind the renderer has no case for
unsupported == <<"unsupported">>

\* a NotionBlock: id, type, its payload block[type] with the rich_text (the
\* plain_text of each span, a sequence of characters) and its children ([]
\* when absent).  payload is "full", or "norichtext" for a payload that has
\* no rich_text, or "missing" when block[type] is undefined.
Block(id, type, rich_text, children) ==
    [id |-> id, type |-> type, payload |-> "full", rich_text |-> rich_text,
     children |-> children]

\* useState<string>(""): the empty section id
NoSection == 0

\* item.type.startsWith('heading_')
startsWithHeading(type) == Len(type) >= 2 /\ type[1] = "heading"

\* parseInt of a one-digit string
parseInt(s) ==
    CASE s = "1" -> 1 [] s = "2" -> 2 [] s = "3" -> 3 [] s = "4" -> 4
      [] OTHER -> -1

\* rich_text.map(t => t.plain_text).join('')
RECURSIVE plainText(_)
plainText(rich_text) ==
    IF rich_text = <<>> THEN <<>>
    ELSE Head(rich_text) \o plainText(Tail(rich_text))

\* item[item.type].rich_text.map(...) raises a TypeError: the item is a
\* heading whose payload, or the payload's rich_text, is undefined
headingThrows(item) == startsWithHeading(item.type) /\ item.payload # "full"

\* scan(items) raises a TypeError at some item of the tree
RECURSIVE scanThrows(_)
scanThrows(items) ==
    \E i \in 1..Len(items) :
        headingThrows(items[i]) \/ scanThrows(items[i].children)

\* the entry pushed for a heading item (none when its text is empty)
headingEntry(item) ==
    IF startsWithHeading(item.type) /\ plainText(item.rich_text) # <<>>
    THEN << [id |-> item.id, text |-> plainText(item.rich_text),
             level |-> parseInt(item.type[2])] >>
    ELSE <<>>

\* scan of the older variant of the component: the top-level blocks only
RECURSIVE scanTopLevel(_)
scanTopLevel(items) ==
    IF items = <<>> THEN <<>>
    ELSE headingEntry(Head(items)) \o scanTopLevel(Tail(items))

\* scan with the children visited before the item itself
RECURSIVE scanPostOrder(_)
scanPostOrder(items) ==
    IF items = <<>> THEN <<>>
    ELSE scanPostOrder(Head(items).children) \o headingEntry(Head(items))
         \o scanPostOrder(Tail(items))

\* scan that pushes a heading once more after its children
RECURSIVE scanTwice(_)
scanTwice(items) ==
    IF items = <<>> THEN <<>>
    ELSE headingEntry(Head(items)) \o scanTwice(Head(items).children)
         \o headingEntry(Head(items)) \o scanTwice(Tail(items))

\* scan(items): items.forEach(item => { push own entry; scan(item.children) })
RECURSIVE scan(_)
scan(items) ==
    IF items = <<>> THEN <<>>
    ELSE headingEntry(Head(items)) \o scan(Head(items).children)
         \o scan(Tail(items))

\* concatenation of a sequence of sequences
RECURSIVE Flatten(_)
Flatten(ss) == IF ss = <<>> THEN <<>> ELSE Head(ss) \o Flatten(Tail(ss))

\* an element of the output: the block it renders and whether it carries the
\* block's id as its DOM id
Element(block, anchor) == [block |-> block.id, anchor |-> anchor]

\* a renderer whose quote and synced_block cases leave out renderChildren()
RECURSIVE rendererLeafQuote(_)
rendererLeafQuote(block) ==
    LET type == block.type
        children == Flatten([i \in 1..Len(block.children) |->
                                rendererLeafQuote(block.children[i])])
    IN  IF block.payload = "missing" THEN <<>>
        ELSE CASE type \in {heading_1, heading_2, heading_3} ->
                     << Element(block, TRUE) >>
               [] type \in {paragraph, bulleted_list_item, numbered_list_item,
                            toggle, callout, column_list, column} ->
                     << Element(block, FALSE) >> \o children
               [] type \in {to_do, divider, code, quote, synced_block} ->
                     << Element(block, FALSE) >>
               [] OTHER -> <<>>

\* NotionBlockRenderer(block) raises a TypeError: data.rich_text.map(...) of a
\* code block whose payload has no rich_text, at the block or at a child that
\* the block renders
RECURSIVE rendererThrows(_)
rendererThrows(block) ==
    /\ block.payload # "missing"
    /\ \/ block.type = code /\ block.payload = "norichtext"
       \/ /\ block.type \in {paragraph, bulleted_list_item, numbered_list_item,
                             toggle, quote, callout, synced_block,
                             column_list, column}
          /\ \E i \in 1..Len(block.children) :
                rendererThrows(block.children[i])

\* NotionBlockRenderer(block): the elements it renders, in document order.
\* Without the payload (if (!data) return null) it renders nothing; h1/h2/h3
\* carry id={block.id}; a kind that neither calls renderChildren nor maps
\* block.children drops its children; an unrecognized kind renders nothing.
RECURSIVE NotionBlockRenderer(_)
NotionBlockRenderer(block) ==
    LET type == block.type
        children == Flatten([i \in 1..Len(block.children) |->
                                NotionBlockRenderer(block.children[i])])
    IN  IF block.payload = "missing" THEN <<>>
        ELSE CASE type \in {heading_1, heading_2, heading_3} ->
                     << Element(block, TRUE) >>
               [] type \in {paragraph, bulleted_list_item, numbered_list_item,
                            toggle, quote, callout, synced_block} ->
                     << Element(block, FALSE) >> \o children
               [] type \in {column_list, column} ->
                     << Element(block, FALSE) >> \o children
               [] type \in {to_do, divider, code} -> << Element(block, FALSE) >>
               [] OTHER -> <<>>

\* a content area that renders the blocks whatever loading is
contentAreaAlways(isLoading, items) ==
    Flatten([i \in 1..Len(items) |-> NotionBlockRenderer(items[i])])

\* the content area: skeletons while loading, else every block rendered
contentArea(isLoading, items) ==
    IF isLoading THEN <<>>
    ELSE Flatten([i \in 1..Len(items) |-> NotionBlockRenderer(items[i])])

\* document.getElementById(id) finds an element
getElementById(document, id) ==
    \E i \in 1..Len(document) : document[i].anchor /\ document[i].block = id

Range(s) == {s[i] : i \in 1..Len(s)}


(***************************************************************************)
(* The content service.                                                    *)
(***************************************************************************)
\* the article ids the parent view hands to ArticleView
Ids == {"A", "B"}

Rt(a, b) == << <<a>>, <<b>> >>

\* data.results of the upstream answer for each id
Results(id) ==
    IF id = "A"
    THEN << Block(1, heading_1, Rt("I", "n"), <<>>),
            Block(2, column_list, <<>>,
               << Block(3, column, <<>>,
                     << Block(4, toggle, Rt("t", "g"),
                           << Block(5, heading_2, Rt("D", "p"), <<>>) >>) >>) >>),
            Block(6, to_do, Rt("d", "o"),
               << Block(7, heading_3, Rt("S", "b"), <<>>) >>) >>
    ELSE << Block(11, paragraph, Rt("p", "q"), <<>>),
            Block(12, heading_1, Rt("O", "t"), <<>>) >>

\* what one call of getPageBlocks meets: the API key of the environment
\* (undefined, a placeholder, a key), what fetch does (rejects, answers with
\* a non-OK status, answers OK) and the body of the answer (not JSON, the
\* JSON null, an object without results, an object with the results)
Outcome(apiKey, fetch, body) ==
    [apiKey |-> apiKey, fetch |-> fetch, body |-> body]

Outcomes ==
    {Outcome(k, f, b) : k \in {"undefined", "PLACEHOLDER", "secret"},
                        f \in {"rejects", "notok", "ok"},
                        b \in {"unparsable", "null", "noresults", "results"}}

\* one outcome for each exit of getPageBlocks, under an upstream whose OK
\* answers carry a results list: no API key, a non-OK status, an OK answer,
\* fetch throwing
BlockOutcomes ==
    {Outcome("undefined", "ok", "results"), Outcome("secret", "notok", "results"),
     Outcome("secret", "ok", "results"), Outcome("secret", "rejects", "results")}

\* the try block of getPageBlocks raises: fetch rejects, response.json()
\* rejects, or data.results is read of null
tryThrows(outcome) ==
    \/ outcome.fetch = "rejects"
    \/ outcome.fetch = "ok" /\ outcome.body \in {"unparsable", "null"}

\* getPageBlocks that lets the failure reach its caller
getPageBlocksRejects(blockId, outcome) ==
    IF outcome.apiKey \in {"undefined", "PLACEHOLDER"}
    THEN [status |-> "fulfilled", isArray |-> TRUE, value |-> <<>>]
    ELSE IF tryThrows(outcome)
    THEN [status |-> "rejected", isArray |-> FALSE, value |-> <<>>]
    ELSE IF outcome.fetch = "notok"
    THEN [status |-> "fulfilled", isArray |-> TRUE, value |-> <<>>]
    ELSE IF outcome.body = "noresults"
    THEN [status |-> "fulfilled", isArray |-> FALSE, value |-> <<>>]
    ELSE [status |-> "fulfilled", isArray |-> TRUE, value |-> Results(blockId)]

\* getPageBlocks that asks for the blocks of the first article whatever id it
\* is given
getPageBlocksFirstId(blockId, outcome) ==
    IF outcome.apiKey \in {"undefined", "PLACEHOLDER"}
    THEN [status |-> "fulfilled", isArray |-> TRUE, value |-> <<>>]
    ELSE IF tryThrows(outcome)
    THEN [status |-> "fulfilled", isArray |-> TRUE, value |-> <<>>]
    ELSE IF outcome.fetch = "notok"
    THEN [status |-> "fulfilled", isArray |-> TRUE, value |-> <<>>]
    ELSE IF outcome.body = "noresults"
    THEN [status |-> "fulfilled", isArray |-> FALSE, value |-> <<>>]
    ELSE [status |-> "fulfilled", isArray |-> TRUE, value |-> Results("A")]

\* getPageBlocks(blockId): how its promise settles.  [] without a usable key,
\* for a non-OK answer and when the try block raises; else data.results,
\* which is undefined (isArray false) when the body has no results
getPageBlocks(blockId, outcome) ==
    IF outcome.apiKey \in {"undefined", "PLACEHOLDER"}
    THEN [status |-> "fulfilled", isArray |-> TRUE, value |-> <<>>]
    ELSE IF tryThrows(outcome)
    THEN [status |-> "fulfilled", isArray |-> TRUE, value |-> <<>>]
    ELSE IF outcome.fetch = "notok"
    THEN [status |-> "fulfilled", isArray |-> TRUE, value |-> <<>>]
    ELSE IF outcome.body = "noresults"
    THEN [status |-> "fulfilled", isArray |-> FALSE, value |-> <<>>]
    ELSE [status |-> "fulfilled", isArray |-> TRUE, value |-> Results(blockId)]

DetailOutcomes == {"ok", "fail"}

\* a NotionPage of the upstream service, and the default result (null)
Page(id) == [id |-> id, cover |-> TRUE]
NullPage == [id |-> "null", cover |-> FALSE]

\* getPageDetails(pageId): resolves to the page, or to the default on failure
getPageDetails(pageId, outcome) ==
    IF outcome = "ok"
    THEN [status |-> "fulfilled", value |-> Page(pageId)]
    ELSE [status |-> "fulfilled", value |-> NullPage]

\* getMediaUrl(data): "" without data, else the url of the external or
\* hosted file (a cover of the model is an external file with a url)
getMediaUrl(data) == IF data THEN "url" ELSE ""

\* pageDetails?.cover ? getMediaUrl(pageDetails.cover) : ""
coverImageUrl(details) ==
    IF details # NullPage /\ details.cover THEN getMediaUrl(details.cover)
    ELSE ""

(***************************************************************************)
(* State.                                                                  *)
(***************************************************************************)
VARIABLES
    mounted,        \* the component instance exists
    articleId,      \* the article.id prop of the latest render
    blocks,         \* useState: [ref, items]; ref is the identity of the array
    pageDetails,    \* useState: [ref, page]
    loading,        \* useState(true)
    activeSection,  \* useState("")
    loads,          \* the calls of loadPageData, in the order they started
    observers,      \* the connected IntersectionObservers, oldest first
    committed,      \* the dependency values of the latest commit
    dom,            \* the elements of the content area in the document
    scrollReq,      \* the latest window.scrollTo call
    pc,             \* the running task and its position
    tree,           \* SpecHeadings: the block tree given to the extractor
    extracted,      \* SpecHeadings: [done, list]
    rendered,       \* SpecPage, SpecContainers: the outcome of one page render
    mermaid,        \* SpecMermaid: the Mermaid instances and their compiles
    richText,       \* SpecRichText: the argument of renderRichText
    fragments,      \* SpecRichText: what renderRichText returned
    request,        \* SpecService: the environment one getPageBlocks call meets
    response        \* SpecService: how the promise of that call settled

viewVars == <<mounted, articleId, blocks, pageDetails, loading, activeSection,
              loads, observers, committed, dom, scrollReq, pc>>
\* the variables of the specifications of single functions and components
pureVars == <<tree, extracted, rendered, mermaid, richText, fragments,
              request, response>>
vars == <<mounted, articleId, blocks, pageDetails, loading, activeSection,
          loads, observers, committed, dom, scrollReq, pc,
          tree, extracted, rendered, mermaid, richText, fragments,
          request, response>>

Idle == [op |-> "idle"]
NoReq == [arg |-> "none", status |-> "none", value |-> <<>>]
NewLoad(id) == [id |-> id, phase |-> "sync", bReq |-> NoReq, dReq |-> NoReq]
\* a call of loadPageData that returned: its promises and locals are released
Released == [arg |-> "none", status |-> "released", value |-> <<>>]
DoneLoad(id) == [id |-> id, phase |-> "done", bReq |-> Released, dReq |-> Released]

\* useMemo(() => { ...scan(blocks)... }, [blocks])
headings == scan(blocks.items)

\* the values the effects' dependency lists read: [article.id] and
\* [headings, loading] (headings changes identity exactly when blocks does)
Deps == [articleId |-> articleId, ref |-> blocks.ref, loading |-> loading]

\* getBoundingClientRect().top of the element, and its document position
DocTop(id) == 200 * id
rectTop(id, yOffset) == DocTop(id) - yOffset
Offsets == {0, 300}

\* nothing rendered, no Mermaid instance, no call of renderRichText or of
\* getPageBlocks on its own
NotRendered == [done |-> FALSE, threw |-> FALSE, elements |-> <<>>]
NoFragments == [done |-> FALSE, isNull |-> FALSE, list |-> <<>>]
NoResponse == [status |-> "none"]
PureIdle ==
    /\ rendered = NotRendered
    /\ mermaid = <<>>
    /\ richText = <<>>
    /\ fragments = NoFragments
    /\ request = <<>>
    /\ response = NoResponse

Init ==
    /\ mounted = TRUE
    /\ articleId \in Ids
    /\ blocks = [ref |-> 0, items |-> <<>>]
    /\ pageDetails = [ref |-> 0, page |-> NullPage]
    /\ loading = TRUE
    /\ activeSection = NoSection
    /\ loads = <<>>
    /\ observers = <<>>
    /\ committed = [articleId |-> articleId, ref |-> 0, loading |-> TRUE]
    /\ dom = <<>>
    /\ scrollReq = [called |-> FALSE, top |-> 0]
    /\ pc = [op |-> "effects", at |-> "load", spy |-> TRUE, load |-> TRUE]
    /\ tree = <<>>
    /\ extracted = [done |-> FALSE, list |-> <<>>]
    /\ PureIdle


(***************************************************************************)
(* React: the commit and the effects that follow it.                       *)
(***************************************************************************)
\* the load effect run after every render
loadEffectDueAlways(changed) == TRUE

\* useEffect(..., [article.id]): the effect runs when article.id changed
loadEffectDue(changed) == changed

\* the render that ends a task, and its commit: the content area is rebuilt
\* from the state, and the effects whose dependencies changed are scheduled
Render(deps, items) ==
    LET spy == committed.ref # deps.ref \/ committed.loading # deps.loading
        load == loadEffectDue(committed.articleId # deps.articleId)
    IN  IF mounted /\ (spy \/ load)
        THEN /\ dom' = contentArea(deps.loading, items)
             /\ committed' = deps
             /\ pc' = [op |-> "effects", at |-> "cleanup", spy |-> spy,
                       load |-> load /\ Len(loads) < MaxLoads]
        ELSE /\ pc' = Idle
             /\ UNCHANGED <<dom, committed>>

\* a scroll-spy effect without the cleanup function
cleanupNothing(obs) == obs

\* return () => observer.disconnect(): the observer of the previous run of
\* the scroll-spy effect (the newest one) is disconnected
cleanup(obs) == IF obs = <<>> THEN obs ELSE SubSeq(obs, 1, Len(obs) - 1)

\* the cleanup of the scroll-spy effect, when [headings, loading] changed
SpyCleanup ==
    /\ pc.op = "effects" /\ pc.at = "cleanup"
    /\ observers' = IF pc.spy THEN cleanup(observers) ELSE observers
    /\ pc' = [pc EXCEPT !.at = IF pc.load THEN "load" ELSE "spy"]
    /\ UNCHANGED <<mounted, articleId, blocks, pageDetails, loading,
                   activeSection, loads, committed, dom, scrollReq, pureVars>>

\* useEffect(() => { ...; loadPageData(); }, [article.id])
LoadEffect ==
    /\ pc.op = "effects" /\ pc.at = "load"
    /\ loads' = Append(loads, NewLoad(articleId))
    /\ pc' = [pc EXCEPT !.at = "setLoading"]
    /\ UNCHANGED <<mounted, articleId, blocks, pageDetails, loading,
                   activeSection, observers, committed, dom, scrollReq, pureVars>>

\* loadPageData: setLoading(true)
SetLoadingTrue ==
    /\ pc.op = "effects" /\ pc.at = "setLoading"
    /\ loading' = TRUE
    /\ pc' = [pc EXCEPT !.at = "getPageBlocks"]
    /\ UNCHANGED <<mounted, articleId, blocks, pageDetails, activeSection,
                   loads, observers, committed, dom, scrollReq,
                   pureVars>>

\* loadPageData: getPageBlocks(article.id) is called; its request is issued
CallGetPageBlocks ==
    /\ pc.op = "effects" /\ pc.at = "getPageBlocks"
    /\ loads' = [loads EXCEPT ![Len(loads)].bReq =
                    [arg |-> loads[Len(loads)].id, status |-> "pending",
                     value |-> <<>>]]
    /\ pc' = [pc EXCEPT !.at = "getPageDetails"]
    /\ UNCHANGED <<mounted, articleId, blocks, pageDetails, loading,
                   activeSection, observers, committed, dom, scrollReq, pureVars>>

\* loadPageData: getPageDetails(article.id) is called; its request is issued
CallGetPageDetails ==
    /\ pc.op = "effects" /\ pc.at = "getPageDetails"
    /\ loads' = [loads EXCEPT ![Len(loads)].dReq =
                    [arg |-> loads[Len(loads)].id, status |-> "pending",
                     value |-> NullPage]]
    /\ pc' = [pc EXCEPT !.at = "await"]
    /\ UNCHANGED <<mounted, articleId, blocks, pageDetails, loading,
                   activeSection, observers, committed, dom, scrollReq, pureVars>>

\* loadPageData: await Promise.all([...]) suspends the function
AwaitAll ==
    /\ pc.op = "effects" /\ pc.at = "await"
    /\ loads' = [loads EXCEPT ![Len(loads)].phase = "awaiting"]
    /\ pc' = [pc EXCEPT !.at = "spy"]
    /\ UNCHANGED <<mounted, articleId, blocks, pageDetails, loading,
                   activeSection, observers, committed, dom, scrollReq, pureVars>>

\* headings.forEach(h => { el = getElementById(h.id); if (el) observe(el) })
observed(hs, document) ==
    {hs[i].id : i \in {j \in 1..Len(hs) : getElementById(document, hs[j].id)}}

\* the scroll-spy effect, when [headings, loading] changed: a new observer
\* watches the anchors of the listed headings that are in the document
SpyEffect ==
    /\ pc.op = "effects" /\ pc.at = "spy"
    /\ observers' = IF pc.spy
                    THEN Append(observers, [targets |-> observed(headings, dom)])
                    ELSE observers
    /\ Render(Deps, blocks.items)
    /\ UNCHANGED <<mounted, articleId, blocks, pageDetails, loading,
                   activeSection, loads, scrollReq, pureVars>>

(***************************************************************************)
(* Events: the parent view, the network, the observer, the user.           *)
(***************************************************************************)
\* the parent renders ArticleView with an article of this id
ParentRender(id) ==
    /\ pc = Idle /\ mounted
    /\ id # articleId => Len(loads) < MaxLoads
    /\ articleId' = id
    /\ Render([Deps EXCEPT !.articleId = id], blocks.items)
    /\ UNCHANGED <<mounted, blocks, pageDetails, loading, activeSection,
                   loads, observers, scrollReq, pureVars>>

\* the component is discarded: the effect cleanups run, its DOM is removed
Unmount ==
    /\ pc = Idle /\ mounted
    /\ mounted' = FALSE
    /\ observers' = cleanup(observers)
    /\ dom' = <<>>
    /\ UNCHANGED <<articleId, blocks, pageDetails, loading, activeSection,
                   loads, committed, scrollReq, pc, pureVars>>

\* the promise of getPageBlocks of load k settles
SettleBlocks(k, outcome) ==
    /\ pc = Idle
    /\ loads[k].bReq.status = "pending"
    /\ loads' = [loads EXCEPT ![k].bReq =
                    [arg |-> @.arg] @@ getPageBlocks(@.arg, outcome)]
    /\ UNCHANGED <<mounted, articleId, blocks, pageDetails, loading,
                   activeSection, observers, committed, dom, scrollReq, pc, pureVars>>

\* the promise of getPageDetails of load k settles
SettleDetails(k, outcome) ==
    /\ pc = Idle
    /\ loads[k].dReq.status = "pending"
    /\ loads' = [loads EXCEPT ![k].dReq =
                    [arg |-> @.arg] @@ getPageDetails(@.arg, outcome)]
    /\ UNCHANGED <<mounted, articleId, blocks, pageDetails, loading,
                   activeSection, observers, committed, dom, scrollReq, pc, pureVars>>

Settled(req) == req.status \in {"fulfilled", "rejected"}

\* Promise.all settles as soon as its first promise has
promiseAllFirst(load) == Settled(load.bReq) \/ Settled(load.dReq)

\* Promise.all([b, d]) has settled: both fulfilled, or one rejected
promiseAll(load) ==
    \/ load.bReq.status = "fulfilled" /\ load.dReq.status = "fulfilled"
    \/ load.bReq.status = "rejected" \/ load.dReq.status = "rejected"

\* a load that takes the default metadata for a failure of the whole load
RejectedOnDefault(load) ==
    \/ load.bReq.status = "rejected" \/ load.dReq.status = "rejected"
    \/ load.dReq.value = NullPage

\* a load that waits with Promise.allSettled: its await never throws
RejectedAllSettled(load) == FALSE

\* the await throws: one of the two promises was rejected
Rejected(load) ==
    load.bReq.status = "rejected" \/ load.dReq.status = "rejected"

\* loadPageData of load k resumes after its await
Resume(k) ==
    /\ pc = Idle
    /\ loads[k].phase = "awaiting"
    /\ promiseAll(loads[k])
    /\ loads' = [loads EXCEPT ![k].phase = "resumed"]
    /\ pc' = [op |-> "resume", k |-> k,
              at |-> IF Rejected(loads[k]) THEN "setLoadingFalse"
                     ELSE "setBlocks"]
    /\ UNCHANGED <<mounted, articleId, blocks, pageDetails, loading,
                   activeSection, observers, committed, dom, scrollReq, pureVars>>

\* a loadPageData that drops the result of a load that is no longer the newest
storeIfNewest(k, old, new) == IF mounted /\ k = Len(loads) THEN new ELSE old

\* a state setter called by load k: the update is dropped once unmounted
store(k, old, new) == IF mounted THEN new ELSE old

\* loadPageData: setBlocks(blocksData)
SetBlocks ==
    /\ pc.op = "resume" /\ pc.at = "setBlocks"
    /\ blocks' = store(pc.k, blocks,
                       [ref |-> pc.k, items |-> loads[pc.k].bReq.value])
    /\ pc' = [pc EXCEPT !.at = "setPageDetails"]
    /\ UNCHANGED <<mounted, articleId, pageDetails, loading, activeSection,
                   loads, observers, committed, dom, scrollReq,
                   pureVars>>

\* loadPageData: setPageDetails(detailsData)
SetPageDetails ==
    /\ pc.op = "resume" /\ pc.at = "setPageDetails"
    /\ pageDetails' = store(pc.k, pageDetails,
                            [ref |-> pc.k, page |-> loads[pc.k].dReq.value])
    /\ pc' = [pc EXCEPT !.at = "setLoadingFalse"]
    /\ UNCHANGED <<mounted, articleId, blocks, loading, activeSection, loads,
                   observers, committed, dom, scrollReq, pureVars>>

\* loadPageData: setLoading(false), after the try/catch; the function ends
SetLoadingFalse ==
    /\ pc.op = "resume" /\ pc.at = "setLoadingFalse"
    /\ loading' = store(pc.k, loading, FALSE)
    /\ loads' = [loads EXCEPT ![pc.k] = DoneLoad(@.id)]
    /\ Render([Deps EXCEPT !.loading = loading'], blocks.items)
    /\ UNCHANGED <<mounted, articleId, blocks, pageDetails, activeSection,
                   observers, scrollReq, pureVars>>

\* the entries one callback of an observer can carry: one entry for each
\* watched target whose intersection changed, in any order
EntryLists(targets) ==
    UNION {{es \in [1..n -> [target : targets, isIntersecting : BOOLEAN]] :
               \A i, j \in 1..n : es[i].target = es[j].target => i = j} :
             n \in 1..MaxEntries}

\* a connected observer delivers entries to its callback
ObserverNotify(o, entries) ==
    /\ pc = Idle /\ mounted
    /\ o \in 1..Len(observers)
    /\ entries \in EntryLists(observers[o].targets)
    /\ pc' = [op |-> "observe", entries |-> entries, i |-> 1]
    /\ UNCHANGED <<mounted, articleId, blocks, pageDetails, loading,
                   activeSection, loads, observers, committed, dom,
                   scrollReq, pureVars>>

\* a callback that sets the section only while none is active
onEntryIfNone(entry, active) ==
    IF entry.isIntersecting /\ active = NoSection THEN entry.target ELSE active

\* a callback that takes every reported entry, intersecting or not
onEntryAny(entry, active) == entry.target

\* if (entry.isIntersecting) setActiveSection(entry.target.id)
onEntry(entry, active) ==
    IF entry.isIntersecting THEN entry.target ELSE active

\* entries.forEach(...): the next entry of the callback is processed
ObserverEntry ==
    /\ pc.op = "observe"
    /\ activeSection' = onEntry(pc.entries[pc.i], activeSection)
    /\ pc' = IF pc.i < Len(pc.entries) THEN [pc EXCEPT !.i = @ + 1] ELSE Idle
    /\ UNCHANGED <<mounted, articleId, blocks, pageDetails, loading, loads,
                   observers, committed, dom, scrollReq, pureVars>>

\* the user clicks the entry of heading id in the table of contents, with the
\* window scrolled to y
Click(id, y) ==
    /\ pc = Idle /\ mounted
    /\ id \in {headings[i].id : i \in 1..Len(headings)}
    /\ pc' = [op |-> "click", id |-> id, pageYOffset |-> y]
    /\ UNCHANGED <<mounted, articleId, blocks, pageDetails, loading,
                   activeSection, loads, observers, committed, dom,
                   scrollReq, pureVars>>

\* const offset = 120
offset == 120

\* an element position that forgets the scroll offset of the window
elementPositionRect(id, yOffset) == rectTop(id, yOffset)

\* element.getBoundingClientRect().top + window.pageYOffset
elementPosition(id, yOffset) == rectTop(id, yOffset) + yOffset

\* scrollToHeading(id)
ScrollToHeading ==
    /\ pc.op = "click"
    /\ IF getElementById(dom, pc.id)
       THEN /\ scrollReq' = [called |-> TRUE,
                             top |-> elementPosition(pc.id, pc.pageYOffset) - offset]
            /\ activeSection' = pc.id
       ELSE UNCHANGED <<scrollReq, activeSection>>
    /\ pc' = Idle
    /\ UNCHANGED <<mounted, articleId, blocks, pageDetails, loading, loads,
                   observers, committed, dom, pureVars>>

Next ==
    \/ SpyCleanup
    \/ LoadEffect
    \/ SetLoadingTrue
    \/ CallGetPageBlocks
    \/ CallGetPageDetails
    \/ AwaitAll
    \/ SpyEffect
    \/ \E id \in Ids : ParentRender(id)
    \/ Unmount
    \/ \E k \in 1..Len(loads), outcome \in BlockOutcomes : SettleBlocks(k, outcome)
    \/ \E k \in 1..Len(loads), outcome \in DetailOutcomes : SettleDetails(k, outcome)
    \/ \E k \in 1..Len(loads) : Resume(k)
    \/ SetBlocks
    \/ SetPageDetails
    \/ SetLoadingFalse
    \/ \E o \in 1..Len(observers) :
          \E entries \in EntryLists(observers[o].targets) : ObserverNotify(o, entries)
    \/ ObserverEntry
    \/ \E id \in Range([i \in 1..Len(headings) |-> headings[i].id]), y \in Offsets :
          Click(id, y)
    \/ ScrollToHeading

Spec == Init /\ [][Next]_vars


(***************************************************************************)
(* The heading extractor over generated block trees.                       *)
(***************************************************************************)
\* the kinds of the generated trees
TreeKinds == {heading_1, heading_2, toggle, column}

\* the shapes of a forest of n blocks: the parent of each block (0: top level)
Parents(n) == {p \in [1..n -> 0..n] : \A i \in 1..n : p[i] < i}

\* the members of a set of numbers, ascending
RECURSIVE Ascending(_)
Ascending(S) ==
    IF S = {} THEN <<>>
    ELSE LET m == CHOOSE x \in S : \A y \in S : x <= y
         IN  <<m>> \o Ascending(S \ {m})

\* the children of block q (the top level for q = 0) as NotionBlocks
RECURSIVE Forest(_, _, _, _)
Forest(n, parent, kind, q) ==
    LET cs == Ascending({i \in 1..n : parent[i] = q})
    IN  [j \in 1..Len(cs) |->
            Block(cs[j], kind[cs[j]], Rt("h", "x"), Forest(n, parent, kind, cs[j]))]

InitHeadings ==
    /\ mounted = TRUE
    /\ articleId = "A"
    /\ blocks = [ref |-> 0, items |-> <<>>]
    /\ pageDetails = [ref |-> 0, page |-> NullPage]
    /\ loading = TRUE
    /\ activeSection = NoSection
    /\ loads = <<>>
    /\ observers = <<>>
    /\ committed = [articleId |-> "A", ref |-> 0, loading |-> TRUE]
    /\ dom = <<>>
    /\ scrollReq = [called |-> FALSE, top |-> 0]
    /\ pc = Idle
    /\ \E n \in 0..MaxNodes :
          \E p \in Parents(n), k \in [1..n -> TreeKinds] :
             tree = Forest(n, p, k, 0)
    /\ extracted = [done |-> FALSE, list |-> <<>>]
    /\ rendered = NotRendered
    /\ mermaid = <<>>
    /\ richText = <<>>
    /\ fragments = NoFragments
    /\ request = <<>>
    /\ response = NoResponse

\* the useMemo callback runs on the tree: extracted = []; scan(blocks)
ExtractHeadings ==
    /\ ~extracted.done
    /\ extracted' = [done |-> TRUE, list |-> scan(tree)]
    /\ UNCHANGED <<viewVars, tree, rendered, mermaid, richText, fragments, request, response>>

NextHeadings == ExtractHeadings

SpecHeadings == InitHeadings /\ [][NextHeadings]_vars

(***************************************************************************)
(* One render of the page over generated block trees: the heading          *)
(* extractor, then the block renderer on every top-level block.            *)
(***************************************************************************)
\* what a block of a generated page is: its kind, its payload, its rich text
Variant(type, payload, rich_text) ==
    [type |-> type, payload |-> payload, rich_text |-> rich_text]

PageVariants ==
    { Variant(heading_1, "full", Rt("h", "x")),
      Variant(heading_2, "full", <<>>),
      Variant(heading_3, "full", Rt("s", "u")),
      Variant(heading_1, "missing", <<>>),
      Variant(heading_2, "norichtext", <<>>),
      Variant(code, "norichtext", <<>>),
      Variant(unsupported, "full", <<>>),
      Variant(toggle, "full", Rt("t", "g")),
      Variant(to_do, "full", Rt("d", "o")) }

\* the children of block q (the top level for q = 0) of a generated page
RECURSIVE Subtree(_, _, _, _)
Subtree(n, parent, variant, q) ==
    LET cs == Ascending({i \in 1..n : parent[i] = q})
    IN  [j \in 1..Len(cs) |->
            [Block(cs[j], variant[cs[j]].type, variant[cs[j]].rich_text,
                   Subtree(n, parent, variant, cs[j]))
               EXCEPT !.payload = variant[cs[j]].payload]]

\* the view at rest, for the specifications of single functions
ViewIdle ==
    /\ mounted = TRUE
    /\ articleId = "A"
    /\ blocks = [ref |-> 0, items |-> <<>>]
    /\ pageDetails = [ref |-> 0, page |-> NullPage]
    /\ loading = TRUE
    /\ activeSection = NoSection
    /\ loads = <<>>
    /\ observers = <<>>
    /\ committed = [articleId |-> "A", ref |-> 0, loading |-> TRUE]
    /\ dom = <<>>
    /\ scrollReq = [called |-> FALSE, top |-> 0]
    /\ pc = Idle

InitPage ==
    /\ ViewIdle
    /\ \E n \in 0..MaxBlocks :
          \E p \in Parents(n), v \in [1..n -> PageVariants] :
             tree = Subtree(n, p, v, 0)
    /\ extracted = [done |-> FALSE, list |-> <<>>]
    /\ rendered = NotRendered
    /\ mermaid = <<>>
    /\ richText = <<>>
    /\ fragments = NoFragments
    /\ request = <<>>
    /\ response = NoResponse

\* rendering the blocks raises: the renderer of some top-level block does
contentThrows(items) == \E i \in 1..Len(items) : rendererThrows(items[i])

\* ArticleView renders with blocks = tree and loading = false: the useMemo
\* callback runs scan(blocks), then the content area renders every block; an
\* error raised by either ends the render (nothing catches it)
RenderPage ==
    /\ ~rendered.done
    /\ IF scanThrows(tree)
       THEN /\ rendered' = [done |-> TRUE, threw |-> TRUE, elements |-> <<>>]
            /\ UNCHANGED extracted
       ELSE /\ extracted' = [done |-> TRUE, list |-> scan(tree)]
            /\ rendered' =
                  IF contentThrows(tree)
                  THEN [done |-> TRUE, threw |-> TRUE, elements |-> <<>>]
                  ELSE [done |-> TRUE, threw |-> FALSE,
                        elements |-> contentArea(FALSE, tree)]
    /\ UNCHANGED <<viewVars, tree, mermaid, richText, fragments, request,
                   response>>

NextPage == RenderPage

SpecPage == InitPage /\ [][NextPage]_vars

\* the container kinds, and two kinds that render no children
Containers ==
    {toggle, column_list, column, quote, callout, synced_block,
     bulleted_list_item, numbered_list_item}

ContainerVariants ==
    {Variant(type, "full", Rt("c", "n")) : type \in Containers}
    \cup {Variant(heading_1, "full", Rt("h", "x")),
          Variant(divider, "full", <<>>)}

InitContainers ==
    /\ ViewIdle
    /\ \E n \in 0..MaxBlocks :
          \E p \in Parents(n), v \in [1..n -> ContainerVariants] :
             tree = Subtree(n, p, v, 0)
    /\ extracted = [done |-> FALSE, list |-> <<>>]
    /\ rendered = NotRendered
    /\ mermaid = <<>>
    /\ richText = <<>>
    /\ fragments = NoFragments
    /\ request = <<>>
    /\ response = NoResponse

SpecContainers == InitContainers /\ [][NextPage]_vars

(***************************************************************************)
(* The Mermaid component: two instances on one page.                       *)
(***************************************************************************)
Instances == {1, 2}

\* the chart descriptions: G and H compile, X makes mermaid.render reject
Charts == {"G", "H", "X"}
Compiles(chart) == chart # "X"

\* useState<string | null>(null), and the text of setError in the catch
NoError == "null"
Notice == "Diagram preview unavailable"

\* the content of the instance's <div>: nothing, the svg of a chart, the text
Empty == <<>>
Svg(chart) == <<"svg", chart>>
Text(string) == <<"text", string>>

\* an instance before it is mounted (overlapped records that its chart
\* changed while a compile was in flight)
NoMermaid ==
    [mounted |-> FALSE, chart |-> "none", error |-> NoError, html |-> Empty,
     jobs |-> <<>>, changes |-> 0, rejected |-> FALSE, overlapped |-> FALSE]

\* ref.current: the placeholder <div ref={ref}> is what the instance rendered
\* last; the <div> of the error notice has no ref
refCurrent(inst) == inst.error = NoError

\* renderChart() up to its await: if (ref.current) { ... mermaid.render(id,
\* chart) is started }; the compiles in flight are kept in starting order
renderChart(inst) ==
    IF refCurrent(inst) THEN [inst EXCEPT !.jobs = Append(@, inst.chart)]
    ELSE inst

\* after the await: if (ref.current) ref.current.innerHTML = svg;
\* setError(null).  Clearing an error renders the empty placeholder again.
onCompiled(inst, chart) ==
    IF refCurrent(inst) THEN [inst EXCEPT !.html = Svg(chart)]
    ELSE [inst EXCEPT !.error = NoError, !.html = Empty]

\* a renderChart without the try/catch: the rejection leaves the function
onCompileErrorUncaught(inst) == [inst EXCEPT !.rejected = TRUE]

\* catch (err) { setError("Diagram preview unavailable") }: the instance
\* renders <div>{error}</div>, whose text replaces the content of the <div>
onCompileError(inst) == [inst EXCEPT !.error = Notice, !.html = Text(Notice)]

Remove(seq, k) == SubSeq(seq, 1, k - 1) \o SubSeq(seq, k + 1, Len(seq))

InitMermaid ==
    /\ ViewIdle
    /\ tree = <<>>
    /\ extracted = [done |-> FALSE, list |-> <<>>]
    /\ rendered = [done |-> TRUE, threw |-> FALSE,
                   elements |-> contentArea(FALSE, Results("B"))]
    /\ mermaid = [i \in Instances |-> NoMermaid]
    /\ richText = <<>>
    /\ fragments = NoFragments
    /\ request = <<>>
    /\ response = NoResponse

\* <Mermaid chart={c}/> is mounted: the placeholder is rendered, then the
\* effect runs renderChart()
MountMermaid(i, c) ==
    /\ ~mermaid[i].mounted
    /\ mermaid' = [mermaid EXCEPT ![i] =
                      renderChart([NoMermaid EXCEPT !.mounted = TRUE,
                                                   !.chart = c])]
    /\ UNCHANGED <<viewVars, tree, extracted, rendered, richText, fragments,
                   request, response>>

\* the instance is rendered with another chart: useEffect(..., [chart]) runs
\* renderChart() again
ChangeChart(i, c) ==
    /\ mermaid[i].mounted
    /\ c # mermaid[i].chart
    /\ mermaid[i].changes < MaxChartChanges
    /\ mermaid' = [mermaid EXCEPT ![i] =
                      renderChart([@ EXCEPT !.chart = c, !.changes = @ + 1,
                                            !.overlapped = @ \/ mermaid[i].jobs # <<>>])]
    /\ UNCHANGED <<viewVars, tree, extracted, rendered, richText, fragments,
                   request, response>>

\* the promise of mermaid.render of the k-th compile in flight is fulfilled
CompileSucceeds(i, k) ==
    /\ k \in 1..Len(mermaid[i].jobs)
    /\ Compiles(mermaid[i].jobs[k])
    /\ mermaid' = [mermaid EXCEPT ![i] =
                      [onCompiled(@, @.jobs[k]) EXCEPT !.jobs = Remove(@, k)]]
    /\ UNCHANGED <<viewVars, tree, extracted, rendered, richText, fragments,
                   request, response>>

\* the promise of mermaid.render of the k-th compile in flight is rejected
CompileFails(i, k) ==
    /\ k \in 1..Len(mermaid[i].jobs)
    /\ ~Compiles(mermaid[i].jobs[k])
    /\ mermaid' = [mermaid EXCEPT ![i] =
                      [onCompileError(@) EXCEPT !.jobs = Remove(@, k)]]
    /\ UNCHANGED <<viewVars, tree, extracted, rendered, richText, fragments,
                   request, response>>

NextMermaid ==
    \/ \E i \in Instances, c \in Charts : MountMermaid(i, c)
    \/ \E i \in Instances, c \in Charts : ChangeChart(i, c)
    \/ \E i \in Instances : \E k \in 1..Len(mermaid[i].jobs) :
          CompileSucceeds(i, k)
    \/ \E i \in Instances : \E k \in 1..Len(mermaid[i].jobs) :
          CompileFails(i, k)

SpecMermaid == InitMermaid /\ [][NextMermaid]_vars

(***************************************************************************)
(* renderRichText over generated span sequences.                           *)
(***************************************************************************)
NoHref == "null"

\* a rich-text span: text.content, annotations, href
Span(content, bold, italic, underline, strikethrough, isCode, color, href) ==
    [content |-> content,
     annotations |-> [bold |-> bold, italic |-> italic,
                      underline |-> underline,
                      strikethrough |-> strikethrough, code |-> isCode,
                      color |-> color],
     href |-> href]

\* const style = { fontWeight, fontStyle, textDecoration, color }
style(annotations) ==
    [fontWeight |-> IF annotations.bold THEN "700" ELSE "inherit",
     fontStyle |-> IF annotations.italic THEN "italic" ELSE "inherit",
     textDecoration |-> IF annotations.underline THEN "underline"
                        ELSE IF annotations.strikethrough THEN "line-through"
                        ELSE "none",
     color |-> IF annotations.color # "default" THEN annotations.color
               ELSE "inherit"]

\* the element of one span: <span style> or <code> (no style), inside
\* <a href style> when href is set; styles is empty for an element without a
\* style attribute, child is empty for an element that holds the content
element(text, i) ==
    LET inner == IF text.annotations.code
                 THEN [tag |-> "code", key |-> i, href |-> NoHref,
                       styles |-> <<>>, content |-> text.content,
                       child |-> <<>>]
                 ELSE [tag |-> "span", key |-> i, href |-> NoHref,
                       styles |-> << style(text.annotations) >>,
                       content |-> text.content, child |-> <<>>]
    IN  IF text.href # NoHref
        THEN [tag |-> "a", key |-> i, href |-> text.href,
              styles |-> << style(text.annotations) >>, content |-> "",
              child |-> << inner >>]
        ELSE inner

\* the argument of renderRichText: an array of spans, or undefined
Array(spans) == [defined |-> TRUE, spans |-> spans]
Undefined == [defined |-> FALSE, spans |-> <<>>]

\* a renderRichText that leaves out the spans without content
RECURSIVE nonEmptyElements(_, _)
nonEmptyElements(spans, i) ==
    IF spans = <<>> THEN <<>>
    ELSE (IF Head(spans).content = "" THEN <<>>
          ELSE << element(Head(spans), i) >>)
         \o nonEmptyElements(Tail(spans), i + 1)
renderRichTextNonEmpty(arg) ==
    IF ~arg.defined THEN [isNull |-> TRUE, list |-> <<>>]
    ELSE [isNull |-> FALSE, list |-> nonEmptyElements(arg.spans, 0)]

\* renderRichText(richText): null for no argument, else richText.map(...)
\* with key={i}
renderRichText(arg) ==
    IF ~arg.defined THEN [isNull |-> TRUE, list |-> <<>>]
    ELSE [isNull |-> FALSE,
          list |-> [i \in 1..Len(arg.spans) |-> element(arg.spans[i], i - 1)]]

\* every combination of the annotations, with and without a link
AllSpans ==
    {Span("a", b, i, u, st, c, col, h) :
        b \in BOOLEAN, i \in BOOLEAN, u \in BOOLEAN, st \in BOOLEAN,
        c \in BOOLEAN, col \in {"default", "red"}, h \in {NoHref, "url"}}

\* the spans of the longer sequences
SeqSpans ==
    {Span(t, FALSE, FALSE, FALSE, FALSE, c, "default", h) :
        t \in {"a", "b", ""}, c \in BOOLEAN, h \in {NoHref, "url"}}

InitRichText ==
    /\ ViewIdle
    /\ tree = <<>>
    /\ extracted = [done |-> FALSE, list |-> <<>>]
    /\ rendered = NotRendered
    /\ mermaid = <<>>
    /\ \/ richText = Undefined
       \/ \E text \in AllSpans : richText = Array(<< text >>)
       \/ \E n \in 0..MaxSpans : \E spans \in [1..n -> SeqSpans] :
             richText = Array(spans)
    /\ fragments = NoFragments
    /\ request = <<>>
    /\ response = NoResponse

\* renderRichText is called on the argument
CallRenderRichText ==
    /\ ~fragments.done
    /\ fragments' = [done |-> TRUE] @@ renderRichText(richText)
    /\ UNCHANGED <<viewVars, tree, extracted, rendered, mermaid, richText,
                   request, response>>

NextRichText == CallRenderRichText

SpecRichText == InitRichText /\ [][NextRichText]_vars

(***************************************************************************)
(* getPageBlocks on its own, over every outcome of its request.            *)
(***************************************************************************)
InitService ==
    /\ ViewIdle
    /\ tree = <<>>
    /\ extracted = [done |-> FALSE, list |-> <<>>]
    /\ rendered = NotRendered
    /\ mermaid = <<>>
    /\ richText = <<>>
    /\ fragments = NoFragments
    /\ \E id \in Ids, outcome \in Outcomes :
          request = [blockId |-> id, outcome |-> outcome]
    /\ response = NoResponse

\* getPageBlocks(blockId) is called and its promise settles
CallService ==
    /\ response = NoResponse
    /\ response' = getPageBlocks(request.blockId, request.outcome)
    /\ UNCHANGED <<viewVars, tree, extracted, rendered, mermaid, richText,
                   fragments, request>>

NextService == CallService

SpecService == InitService /\ [][NextService]_vars

(***************************************************************************)
(* Properties.                                                             *)
(***************************************************************************)
BothSettled(load) == Settled(load.bReq) /\ Settled(load.dReq)
BothIssued(load) == load.bReq.status # "none" /\ load.dReq.status # "none"
Running == pc.op = "effects" /\ pc.at \in {"setLoading", "getPageBlocks",
                                          "getPageDetails", "await"}

\* a request of load k is issued in this step
Issues(k) ==
    \/ loads[k].bReq.status = "none" /\ loads'[k].bReq.status = "pending"
    \/ loads[k].dReq.status = "none" /\ loads'[k].dReq.status = "pending"

\* the results are stored, or loading is set to false, in this step
Stores ==
    \/ blocks' # blocks
    \/ pageDetails' # pageDetails
    \/ loading /\ ~loading'

\* C1 (state part): a load that is suspended at its await, or one of whose
\* requests has settled, has issued both requests; a load that has resumed
\* has both requests settled
LoadStateC1 ==
    \A k \in 1..Len(loads) :
        /\ loads[k].phase = "awaiting" => BothIssued(loads[k])
        /\ (Settled(loads[k].bReq) \/ Settled(loads[k].dReq)) => BothIssued(loads[k])
        /\ loads[k].phase = "resumed" => BothSettled(loads[k])
        /\ loads[k].phase = "sync" => k = Len(loads) /\ pc.op = "effects"

\* C1 (step part): loading is already true when a request is issued; blocks
\* and pageDetails are stored and loading is set to false only by a resumed
\* load whose two requests have settled
LoadStepC1 ==
    /\ \A k \in 1..Len(loads) : Issues(k) => loading /\ loads[k].phase = "sync"
    /\ Stores => /\ pc.op = "resume"
                 /\ loads[pc.k].phase = "resumed"
                 /\ BothSettled(loads[pc.k])

\* C1: within one load, loading is set to true before either request is
\* issued, both requests are issued before either result is awaited, and
\* blocks/pageDetails are stored and loading is set to false only after both
\* requests of that load have settled
LoadOrderC1 == [](LoadStateC1) /\ [][LoadStepC1]_vars

\* C1 witness: the first load has run to its end with both results stored
WitnessC1 ==
    /\ Len(loads) = 1 /\ loads[1].phase = "done"
    /\ blocks.ref = 1 /\ blocks.items # <<>>
    /\ pageDetails.ref = 1 /\ pageDetails.page # NullPage
    /\ ~loading /\ pc = Idle /\ mounted


\* C2: whenever the committed render has loading true, the content area holds
\* no element of any block (only the skeletons); and outside the run of a
\* resumed load, blocks and pageDetails are the results of the same load, so
\* no render shows one load's blocks beside another load's metadata
SkeletonWhileLoadingC2 ==
    /\ (mounted /\ committed.loading) => dom = <<>>
    /\ (mounted /\ pc = Idle) =>
          /\ committed = Deps
          /\ dom = contentAreaAlways(FALSE, IF loading THEN <<>> ELSE blocks.items)
    /\ pc.op # "resume" => blocks.ref = pageDetails.ref

\* C2 witness: a second load is under way while the first load's blocks are
\* still stored: the content area shows the skeletons only
WitnessC2 ==
    /\ mounted /\ pc = Idle /\ loading
    /\ blocks.items # <<>>
    /\ Len(loads) = 2 /\ loads[2].phase = "awaiting"
    /\ dom = <<>>

\* C3 (state part): a load that runs reads the id of the latest render, and
\* two loads in a row are for different ids; once the effects have run, the
\* newest load is the load of the current article.id
ReloadStateC3 ==
    /\ \A k \in 1..Len(loads) :
          /\ k > 1 => loads[k].id # loads[k - 1].id
          /\ loads[k].bReq.status = "pending" => loads[k].bReq.arg = loads[k].id
          /\ loads[k].dReq.status = "pending" => loads[k].dReq.arg = loads[k].id
    /\ Running => loads[Len(loads)].id = articleId
    /\ (mounted /\ pc = Idle) =>
          /\ loads # <<>>
          /\ loads[Len(loads)].id = articleId
          /\ loads[Len(loads)].phase \in {"awaiting", "resumed", "done"}

\* C3 (step part): a change of article.id schedules the load effect, and a
\* load is created only by the load effect scheduled by such a change (or by
\* the mount)
ReloadStepC3 ==
    /\ articleId' # articleId =>
          pc'.op = "effects" /\ pc'.load /\ pc'.at = "cleanup"
    /\ Len(loads') # Len(loads) =>
          /\ loads' = Append(loads, NewLoad(articleId))
          /\ pc.op = "effects" /\ pc.at = "load" /\ pc'.at = "setLoading"
          /\ loads = <<>> \/ loads[Len(loads)].id # articleId

\* C3: every change of article.id starts the load sequence again for the new
\* id, and no load is started while article.id stays the same
ReloadOnIdChangeC3 == [](ReloadStateC3) /\ [][ReloadStepC3]_vars

\* C3 witness: after a change of article.id the second load ran to its end
\* and stored the results fetched for the new id
WitnessC3 ==
    /\ Len(loads) = 2 /\ loads[2].phase = "done" /\ loads[1].phase = "done"
    /\ loads[2].id = articleId
    /\ blocks.ref = 2 /\ blocks.items = Results(articleId)
    /\ pageDetails.page = Page(articleId)
    /\ ~loading /\ mounted /\ pc = Idle

\* the stored blocks were fetched for another id than the current one
Stale == blocks.ref # 0 /\ loads[blocks.ref].id # articleId
AllDone == \A k \in 1..Len(loads) : loads[k].phase = "done"

\* C4 (step part): a change of article.id leaves the requests in flight as
\* they are; a resumed load stores its own results whether or not a newer
\* load exists; stale blocks stay once every load has ended, until the next
\* change of article.id
StaleStepC4 ==
    /\ articleId' # articleId =>
          \A k \in 1..Len(loads) : loads'[k] = loads[k]
    /\ (mounted /\ pc.op = "resume" /\ pc.at = "setBlocks") =>
          blocks' = [ref |-> pc.k, items |-> loads[pc.k].bReq.value]
    /\ (mounted /\ pc.op = "resume" /\ pc.at = "setPageDetails") =>
          pageDetails' = [ref |-> pc.k, page |-> loads[pc.k].dReq.value]
    /\ (Stale /\ AllDone /\ articleId' = articleId) =>
          blocks' = blocks /\ pageDetails' = pageDetails

\* C4: requests in flight are not cancelled by a change of article.id, and
\* when the older load's requests settle last its blocks and metadata
\* overwrite the newer load's and stay until the next change of article.id
StaleOverwriteC4 == [][StaleStepC4]_vars

\* C4 witness: the id changed from A to B, B's load ended first, then A's
\* load stored A's blocks and metadata: the current id is B, the blocks A's
WitnessC4 ==
    /\ mounted /\ pc = Idle /\ ~loading
    /\ Len(loads) = 2 /\ AllDone
    /\ loads[1].id = "A" /\ articleId = "B"
    /\ blocks = [ref |-> 1, items |-> Results("A")]
    /\ pageDetails = [ref |-> 1, page |-> Page("A")]


\* the entries of the table of contents shown as active
ActiveEntries == {i \in 1..Len(headings) : headings[i].id = activeSection}

\* C5: at most one entry of the table of contents is marked active
AtMostOneActiveC5 == Cardinality(ActiveEntries) <= 1

\* C5 witness: among several listed entries exactly one is active, after a
\* click and an observer callback
WitnessC5 ==
    /\ mounted /\ pc = Idle
    /\ Len(headings) >= 2
    /\ Cardinality(ActiveEntries) = 1
    /\ scrollReq.called /\ scrollReq.top # DocTop(activeSection) - offset

\* the last entry of a callback that reports an intersection
LastIntersecting(entries) ==
    LET I == {i \in 1..Len(entries) : entries[i].isIntersecting}
    IN  entries[CHOOSE i \in I : \A j \in I : j <= i]

\* C6 (step part): the callback sets activeSection to the id of an entry that
\* intersects and leaves it alone for one that does not; after the last entry
\* the active section is the last intersecting entry's, if there is one
ObserverStepC6 ==
    pc.op = "observe" =>
        LET e == pc.entries[pc.i]
        IN  /\ e.isIntersecting => activeSection' = e.target
            /\ ~e.isIntersecting => activeSection' = activeSection
            /\ (pc.i = Len(pc.entries)
                  /\ \E i \in 1..Len(pc.entries) : pc.entries[i].isIntersecting)
               => activeSection' = LastIntersecting(pc.entries).target
            /\ \A i \in 1..Len(pc.entries) :
                  pc.entries[i].target \in observers[1].targets

\* C6: an anchor reported as intersecting becomes the active section, one
\* reported as not intersecting changes nothing, and of several intersecting
\* anchors the one processed last is active afterwards
ObserverSetsActiveC6 == [][ObserverStepC6]_vars

\* C6 witness: a callback reports two intersecting anchors; the first has been
\* made active and the second, a different one, is about to be processed
WitnessC6 ==
    /\ pc.op = "observe" /\ Len(pc.entries) = 2 /\ pc.i = 2
    /\ pc.entries[1].isIntersecting /\ pc.entries[2].isIntersecting
    /\ activeSection = pc.entries[1].target

\* C7 (step part): scrollToHeading(id) with the element present scrolls to the
\* element's document position minus 120 and makes id the active section in
\* the same step; with no such element it changes neither
ClickStepC7 ==
    pc.op = "click" =>
        IF \E i \in 1..Len(dom) : dom[i].anchor /\ dom[i].block = pc.id
        THEN /\ scrollReq' = [called |-> TRUE, top |-> DocTop(pc.id) - 120]
             /\ activeSection' = pc.id
             /\ pc' = Idle
        ELSE /\ scrollReq' = scrollReq
             /\ activeSection' = activeSection

\* C7: a click on an entry whose anchor exists scrolls to the anchor's
\* document position minus the fixed offset and sets activeSection at once;
\* a click on an entry without an element does neither
ClickScrollsC7 == [][ClickStepC7]_vars

\* C7 witness: a click on the nested heading scrolled to it from a scrolled
\* window and made it active; a later click, while the next load shows the
\* skeletons, finds no element
WitnessC7 ==
    /\ pc.op = "click" /\ pc.id = 1 /\ pc.pageYOffset = 300
    /\ scrollReq = [called |-> TRUE, top |-> DocTop(5) - 120]
    /\ activeSection = 5
    /\ loading /\ dom = <<>>

\* C8: at most one observer of the component is connected; a new observer
\* starts observing only after the previous one was disconnected; none is
\* connected once the component is discarded; a callback that runs belongs to
\* the connected observer
OneObserverC8 ==
    /\ Len(observers) <= 1
    /\ (pc.op = "effects" /\ pc.spy /\ pc.at # "cleanup") => observers = <<>>
    /\ ~mounted => observers = <<>> /\ pc.op \notin {"observe", "click"}
    /\ pc.op = "observe" => mounted /\ Len(observers) = 1

\* C8 witness: the observer was replaced several times and the connected one
\* watches the anchors of the second load's headings
WitnessC8 ==
    /\ mounted /\ pc = Idle
    /\ blocks.ref = 2 /\ ~loading
    /\ Len(observers) = 1 /\ observers[1].targets # {}

\* C9 (step part): activeSection changes only in the observer callback, for an
\* intersecting entry, and in scrollToHeading
ActiveFrameStepC9 ==
    activeSection' # activeSection =>
        \/ pc.op = "observe" /\ pc.entries[pc.i].isIntersecting
        \/ pc.op = "click"

\* C9: only an observer callback reporting an intersecting anchor and a click
\* on a heading entry change activeSection; starting a load, a settling
\* request, storing the results and a change of article.id leave it unchanged
ActiveFrameC9 == [][ActiveFrameStepC9]_vars

\* C9 witness: the section made active under the first article is still the
\* active one after the id changed and the second load stored its results
WitnessC9 ==
    /\ mounted /\ pc = Idle /\ ~loading
    /\ blocks.ref = 2 /\ blocks.items # <<>>
    /\ activeSection # NoSection
    /\ ~getElementById(dom, activeSection)


\* the paths of the blocks of a forest: the child indices from the top level
RECURSIVE Paths(_)
Paths(items) ==
    UNION {{<<i>>} \cup {<<i>> \o q : q \in Paths(items[i].children)} :
             i \in 1..Len(items)}

RECURSIVE NodeAt(_, _)
NodeAt(items, path) ==
    IF Len(path) = 1 THEN items[path[1]]
    ELSE NodeAt(items[path[1]].children, Tail(path))

PathOf(items, id) == CHOOSE q \in Paths(items) : NodeAt(items, q).id = id

IsPrefix(a, b) == Len(a) < Len(b) /\ \A m \in 1..Len(a) : a[m] = b[m]

\* a comes before b in depth-first pre-order: a is an ancestor of b, or at the
\* first index where the paths part a's branch is the earlier sibling
Before(a, b) ==
    \/ IsPrefix(a, b)
    \/ \E m \in 1..Len(a) :
          /\ m <= Len(b)
          /\ \A n \in 1..(m - 1) : a[n] = b[n]
          /\ a[m] < b[m]

KindLevel(type) ==
    CASE type = heading_1 -> 1 [] type = heading_2 -> 2 [] type = heading_3 -> 3

\* C10: the extracted heading list is in depth-first pre-order (a heading
\* before the headings among its descendants, siblings' subtrees in sibling
\* order), each entry with the level of its own kind, whatever its ancestors
PreOrderC10 ==
    extracted.done =>
        LET e == extracted.list
        IN  /\ \A i, j \in 1..Len(e) :
                  i < j => Before(PathOf(tree, e[i].id), PathOf(tree, e[j].id))
            /\ \A i \in 1..Len(e) :
                  /\ e[i].id \in {NodeAt(tree, q).id : q \in Paths(tree)}
                  /\ e[i].level = KindLevel(NodeAt(tree, PathOf(tree, e[i].id)).type)

\* C10 witness: a heading_2 under a toggle under a column is listed with level
\* 2, after a heading that precedes the column and before nothing else
WitnessC10 ==
    /\ extracted.done
    /\ Len(tree) = 2 /\ tree[1].type = heading_1 /\ tree[2].type = column
    /\ Len(tree[2].children) = 1 /\ tree[2].children[1].type = toggle
    /\ Len(tree[2].children[1].children) = 1
    /\ tree[2].children[1].children[1].type = heading_2
    /\ Len(extracted.list) = 2
    /\ extracted.list[2].id = tree[2].children[1].children[1].id
    /\ extracted.list[2].level = 2

\* the blocks of a tree, by path
Nodes(items) == {NodeAt(items, q) : q \in Paths(items)}

\* the entry of the heading list a block should have
EntryOf(block) ==
    [id |-> block.id, text |-> Flatten(block.rich_text),
     level |-> KindLevel(block.type)]

\* the list holds exactly one entry, the block's own, for each block of S and
\* nothing else
ListsExactly(list, S) ==
    /\ Len(list) = Cardinality(S)
    /\ \A b \in S : \E i \in 1..Len(list) : list[i] = EntryOf(b)
    /\ \A i \in 1..Len(list) : \E b \in S : list[i] = EntryOf(b)

HeadingBlocks(items) ==
    {b \in Nodes(items) : b.type \in {heading_1, heading_2, heading_3}}

ListedAnchorsRenderedC12 ==
    (mounted /\ pc = Idle /\ ~loading /\ blocks.items # <<>>) =>
        \A i \in 1..Len(headings) : getElementById(dom, headings[i].id)

\* the chart of instance i changes (or the instance is mounted) in this step
ChartSet(i) == mermaid'[i].mounted /\ mermaid'[i].chart # mermaid[i].chart

\* a compile of the instance's current chart succeeds in this step
CurrentCompiled(i) ==
    \E k \in 1..Len(mermaid[i].jobs) :
        /\ mermaid[i].jobs[k] = mermaid[i].chart
        /\ Compiles(mermaid[i].jobs[k])
        /\ mermaid'[i].jobs = Remove(mermaid[i].jobs, k)
        /\ mermaid'[i].chart = mermaid[i].chart

\* C13 (step part): a mount or a change of the chart starts a compile of the
\* new chart, and a successful compile of the current chart puts its svg in
\* the slot, with no error notice
CompileStepC13 ==
    \A i \in Instances :
        /\ ChartSet(i) =>
              mermaid'[i].jobs = Append(mermaid[i].jobs, mermaid'[i].chart)
        /\ CurrentCompiled(i) =>
              /\ mermaid'[i].html = Svg(mermaid[i].chart)
              /\ mermaid'[i].error = NoError

\* C13: on mount and after every change of its chart a Mermaid instance
\* starts a compile of the current chart and shows the result when the
\* compile succeeds, from every state, the error state included
CompileOnChangeC13 == [][CompileStepC13]_vars

\* a compile of instance i fails in this step
CompileFailed(i) ==
    \E k \in 1..Len(mermaid[i].jobs) :
        /\ ~Compiles(mermaid[i].jobs[k])
        /\ mermaid'[i].jobs = Remove(mermaid[i].jobs, k)
        /\ mermaid'[i].chart = mermaid[i].chart

\* C14 (state part): an instance in the error state shows the notice and
\* nothing else, and no failure has left renderChart
NoticeOnlyC14 ==
    \A i \in Instances :
        /\ mermaid[i].error # NoError =>
              /\ mermaid[i].error = "Diagram preview unavailable"
              /\ mermaid[i].html = <<"text", mermaid[i].error>>
        /\ ~mermaid[i].rejected

\* C14 (step part): a failing compile puts its instance in the error state
\* and changes neither another instance nor the other blocks of the page; an
\* instance in the error state with no compile in flight stays in it
FailureStepC14 ==
    \A i \in Instances :
        /\ CompileFailed(i) =>
              /\ mermaid'[i].error # NoError
              /\ \A j \in Instances \ {i} : mermaid'[j] = mermaid[j]
              /\ rendered' = rendered
        /\ (mermaid[i].error # NoError /\ mermaid[i].jobs = <<>>) =>
              mermaid'[i].error # NoError

Renderable(block) == block.payload = "full" /\ block.type # unsupported

\* C15: rendering a page (heading extraction and block renderer) raises no
\* error on any block tree, also with blocks of an unrecognized kind or with
\* a missing or incomplete payload; such a block has no element in the output
\* and every other top-level block has one
NoRenderErrorC15 ==
    rendered.done =>
        /\ ~rendered.threw
        /\ \A i \in 1..Len(rendered.elements) :
              \E b \in Nodes(tree) :
                  b.id = rendered.elements[i].block /\ Renderable(b)
        /\ \A j \in 1..Len(tree) :
              Renderable(tree[j]) =>
                  \E i \in 1..Len(rendered.elements) :
                      rendered.elements[i].block = tree[j].id

\* the elements of a fragment, the outer one first
Parts(fragment) == << fragment >> \o fragment.child

\* some element of the fragment has a style with this value of the property
Styled(fragment, property, values) ==
    \E p \in 1..Len(Parts(fragment)) :
        \E q \in 1..Len(Parts(fragment)[p].styles) :
            Parts(fragment)[p].styles[q][property] \in values

\* the fragment shows what the span's annotations and link ask for
Reflects(fragment, text) ==
    /\ text.annotations.bold => Styled(fragment, "fontWeight", {"700"})
    /\ text.annotations.italic => Styled(fragment, "fontStyle", {"italic"})
    /\ text.annotations.underline =>
          Styled(fragment, "textDecoration",
                 {"underline", "underline line-through"})
    /\ text.annotations.strikethrough =>
          Styled(fragment, "textDecoration",
                 {"line-through", "underline line-through"})
    /\ text.annotations.color # "default" =>
          Styled(fragment, "color", {text.annotations.color})
    /\ text.annotations.code =>
          \E p \in 1..Len(Parts(fragment)) : Parts(fragment)[p].tag = "code"
    /\ text.href # NoHref =>
          fragment.tag = "a" /\ fragment.href = text.href
                             /\ Len(fragment.child) = 1

\* C16: for every span and every combination of its annotations, with or
\* without a link, each annotation that is set shows in the span's fragment
\* and a link wraps it: no annotation and no link suppresses another
AnnotationsCombineC16 ==
    (fragments.done /\ richText.defined) =>
        \A i \in 1..Len(richText.spans) :
            /\ i <= Len(fragments.list)
            /\ Reflects(fragments.list[i], richText.spans[i])

\* the content a fragment shows
ContentOf(fragment) ==
    IF fragment.child # <<>> THEN fragment.child[1].content
    ELSE fragment.content

\* C17: renderRichText returns one top-level fragment for each span, in the
\* order of the spans: the i-th fragment has key i - 1 and the content of the
\* i-th span, and is a link exactly when the span has a link; without an
\* argument it returns null and raises nothing
OneFragmentPerSpanC17 ==
    fragments.done =>
        IF richText.defined
        THEN /\ ~fragments.isNull
             /\ Len(fragments.list) = Len(richText.spans)
             /\ \A i \in 1..Len(richText.spans) :
                   /\ fragments.list[i].key = i - 1
                   /\ ContentOf(fragments.list[i]) = richText.spans[i].content
                   /\ (fragments.list[i].tag = "a")
                         = (richText.spans[i].href # NoHref)
                   /\ fragments.list[i].href = richText.spans[i].href
        ELSE fragments.isNull /\ fragments.list = <<>>

\* C17 witness: of two spans with different contents, the first a coded link
\* and the second plain, the fragments are a link and a span, in this order
WitnessC17 ==
    /\ fragments.done /\ richText.defined /\ Len(richText.spans) = 2
    /\ richText.spans[1].content = "b" /\ richText.spans[1].href = "url"
    /\ richText.spans[1].annotations.code
    /\ richText.spans[2].content = "a" /\ richText.spans[2].href = NoHref
    /\ fragments.list[1].tag = "a" /\ fragments.list[1].child[1].tag = "code"
    /\ fragments.list[2].tag = "span"

\* the paths of the blocks all of whose ancestors are of a container kind
ThroughContainers(items) ==
    {q \in Paths(items) :
        \A m \in 1..(Len(q) - 1) :
            NodeAt(items, SubSeq(q, 1, m)).type \in
                {toggle, column_list, column, quote, callout, synced_block,
                 bulleted_list_item, numbered_list_item}}

\* C18: the output of a block of a container kind is the block's own element
\* followed by the output of its children in their order, at every depth:
\* the rendered elements are, in depth-first pre-order and each exactly once,
\* the blocks all of whose ancestors are of a container kind, and no others
ContainersRenderChildrenC18 ==
    rendered.done =>
        LET e == rendered.elements
            R == ThroughContainers(tree)
        IN  /\ ~rendered.threw
            /\ Len(e) = Cardinality(R)
            /\ \A q \in R : \E i \in 1..Len(e) : e[i].block = NodeAt(tree, q).id
            /\ \A i \in 1..Len(e) : PathOf(tree, e[i].block) \in R
            /\ \A i, j \in 1..Len(e) :
                  i < j => Before(PathOf(tree, e[i].block),
                                  PathOf(tree, e[j].block))

\* C18 witness: a quote holds a synced_block, which holds a heading; the
\* three are rendered in this order
WitnessC18 ==
    /\ rendered.done /\ Len(tree) = 1 /\ tree[1].type = quote
    /\ Len(tree[1].children) = 1
    /\ tree[1].children[1].type = synced_block
    /\ Len(tree[1].children[1].children) = 1
    /\ tree[1].children[1].children[1].type = heading_1
    /\ rendered.elements =
          << [block |-> tree[1].id, anchor |-> FALSE],
             [block |-> tree[1].children[1].id, anchor |-> FALSE],
             [block |-> tree[1].children[1].children[1].id, anchor |-> TRUE] >>

\* C19 (step part): when a load whose metadata request gave the default and
\* whose block request gave the blocks of its id ends, the blocks are stored
\* and rendered, every top-level block by the renderer, loading is false and
\* the header has no cover image
DefaultMetadataStepC19 ==
    (/\ mounted /\ pc.op = "resume"
     /\ loads[pc.k].dReq.value = NullPage
     /\ loads[pc.k].bReq.value = Results(loads[pc.k].id)
     /\ pc' = Idle \/ pc'.op = "effects")
    => /\ blocks'.items = Results(loads[pc.k].id)
       /\ pageDetails'.page = NullPage
       /\ ~loading'
       /\ dom' = Flatten([i \in 1..Len(blocks'.items) |->
                             NotionBlockRenderer(blocks'.items[i])])
       /\ dom' # <<>>
       /\ coverImageUrl(pageDetails'.page) = ""

\* C19: default metadata beside a fetched block tree: once the load is
\* complete the blocks are stored and rendered in full, loading is false and
\* no cover image is shown
DefaultMetadataC19 == [][DefaultMetadataStepC19]_vars

\* C19 witness: the load of article A ended with the default metadata and
\* A's blocks, which are shown without a cover
WitnessC19 ==
    /\ mounted /\ pc = Idle /\ ~loading
    /\ Len(loads) = 1 /\ loads[1].phase = "done"
    /\ blocks = [ref |-> 1, items |-> Results("A")]
    /\ pageDetails = [ref |-> 1, page |-> NullPage]
    /\ Len(dom) = 6
    /\ coverImageUrl(pageDetails.page) = ""

\* the request failed: no usable key, a network failure, a non-OK status or
\* a body that is not JSON
RequestFailed(outcome) ==
    \/ outcome.apiKey \in {"undefined", "PLACEHOLDER"}
    \/ outcome.fetch \in {"rejects", "notok"}
    \/ outcome.body = "unparsable"

\* C20: getPageBlocks never rejects: for every outcome of its request it
\* resolves to a list of blocks, the empty list in every failure case
AlwaysAListC20 ==
    response # NoResponse =>
        /\ response.status = "fulfilled"
        /\ response.isArray
        /\ RequestFailed(request.outcome) => response.value = <<>>

\* a request issued by ArticleView is in flight
InFlight ==
    \E k \in 1..Len(loads) :
        loads[k].bReq.status = "pending" \/ loads[k].dReq.status = "pending"

\* C21 as stated: in every state with loading false no request issued by
\* ArticleView is in flight and the stored blocks are the result fetched for
\* the current article.id, or the initial empty list
LoadingCoversRequestsC21 ==
    (mounted /\ pc = Idle /\ ~loading) =>
        /\ ~InFlight
        /\ blocks.ref = 0 \/ loads[blocks.ref].id = articleId

\* C21 amended: in every state with loading false the load whose blocks are
\* stored has ended and the blocks are the result fetched for the id that
\* load was started with, which is the current article.id when that load is
\* the newest one; while only one load has been started no request is in
\* flight
LoadingCoversStoredLoadC21 ==
    (mounted /\ pc = Idle /\ ~loading) =>
        /\ blocks.ref \in 1..Len(loads)
        /\ loads[blocks.ref].phase = "done"
        /\ blocks.items \in {Results(loads[blocks.ref].id), <<>>}
        /\ blocks.ref = Len(loads) => loads[blocks.ref].id = articleId
        /\ Len(loads) = 1 => ~InFlight

\* C21 witness: loading is false while the newest load, for B, still waits
\* for a request: the older load, for A, ended after the newer one began and
\* its blocks are the stored ones
WitnessC21 ==
    /\ mounted /\ pc = Idle /\ ~loading
    /\ Len(loads) = 2 /\ loads[2].phase = "awaiting"
    /\ loads[2].bReq.status = "pending"
    /\ articleId = "B" /\ blocks = [ref |-> 1, items |-> Results("A")]

\* the ids of the heading entries of the stored block tree
HeadingIds == {headings[i].id : i \in 1..Len(headings)}

\* C22 as stated: in every state activeSection is empty or the id of a heading
\* entry of the currently stored block tree
ActiveInStoredTreeC22 ==
    (mounted /\ pc = Idle) =>
        activeSection = NoSection \/ activeSection \in HeadingIds

\* C22 amended (step part): a step that changes activeSection sets it to the
\* id of a heading entry of the tree stored at that moment whose anchor is in
\* the document
ActiveSetFromStoredTreeC22 ==
    activeSection' # activeSection =>
        /\ activeSection' \in HeadingIds
        /\ getElementById(dom, activeSection')

\* C22 amended: activeSection is empty or the id of a heading entry of a tree
\* the service returned for some article; it is set only to a listed heading
\* of the tree stored at that moment, and a load that stores a new tree
\* leaves it as it is
ActiveFromSomeTreeC22 ==
    /\ [](activeSection = NoSection
            \/ \E id \in Ids :
                  activeSection \in {scan(Results(id))[i].id :
                                        i \in 1..Len(scan(Results(id)))})
    /\ [][ActiveSetFromStoredTreeC22]_vars

\* C22 witness: the second load stored the tree of B while activeSection is
\* still the id of a heading of the tree of A
WitnessC22 ==
    /\ mounted /\ pc = Idle /\ ~loading
    /\ blocks = [ref |-> 2, items |-> Results("B")]
    /\ activeSection \in {1, 5}
    /\ activeSection \notin HeadingIds


(***************************************************************************)
(* loadPageData on its own, with requests that may also be rejected and    *)
(* calls that may throw, under the scheduling of the event loop.  The      *)
(* service as written catches its failures; this specification checks what *)
(* loadPageData does should a promise it awaits be rejected all the same.  *)
(***************************************************************************)
\* the promise of getPageBlocks of load k is rejected
RejectBlocks(k) ==
    /\ pc = Idle
    /\ loads[k].bReq.status = "pending"
    /\ loads' = [loads EXCEPT ![k].bReq =
                    [arg |-> @.arg, status |-> "rejected", isArray |-> FALSE,
                     value |-> <<>>]]
    /\ UNCHANGED <<mounted, articleId, blocks, pageDetails, loading,
                   activeSection, observers, committed, dom, scrollReq, pc, pureVars>>

\* the promise of getPageDetails of load k is rejected
RejectDetails(k) ==
    /\ pc = Idle
    /\ loads[k].dReq.status = "pending"
    /\ loads' = [loads EXCEPT ![k].dReq =
                    [arg |-> @.arg, status |-> "rejected", value |-> NullPage]]
    /\ UNCHANGED <<mounted, articleId, blocks, pageDetails, loading,
                   activeSection, observers, committed, dom, scrollReq, pc, pureVars>>

\* loadPageData: one of the two calls inside the try throws; the catch logs
\* the error, setLoading(false) follows and the function ends
CallThrows ==
    /\ pc.op = "effects" /\ pc.at \in {"getPageBlocks", "getPageDetails"}
    /\ loading' = store(Len(loads), loading, FALSE)
    /\ loads' = [loads EXCEPT ![Len(loads)] = DoneLoad(@.id)]
    /\ pc' = [pc EXCEPT !.at = "spy"]
    /\ UNCHANGED <<mounted, articleId, blocks, pageDetails, activeSection,
                   observers, committed, dom, scrollReq, pureVars>>

\* the steps of a task that is running: the event loop runs it to completion
Task ==
    \/ SpyCleanup
    \/ LoadEffect
    \/ SetLoadingTrue
    \/ CallGetPageBlocks
    \/ CallGetPageDetails
    \/ CallThrows
    \/ AwaitAll
    \/ SpyEffect
    \/ SetBlocks
    \/ SetPageDetails
    \/ SetLoadingFalse

\* the request of getPageBlocks, of getPageDetails, of load k comes to an end
BlocksSettle(k) ==
    \/ \E outcome \in BlockOutcomes : SettleBlocks(k, outcome)
    \/ RejectBlocks(k)
DetailsSettle(k) ==
    \/ \E outcome \in DetailOutcomes : SettleDetails(k, outcome)
    \/ RejectDetails(k)

NextLoad ==
    \/ Task
    \/ \E id \in Ids : ParentRender(id)
    \/ Unmount
    \/ \E k \in 1..Len(loads) : BlocksSettle(k)
    \/ \E k \in 1..Len(loads) : DetailsSettle(k)
    \/ \E k \in 1..Len(loads) : Resume(k)

\* a running task takes its next step; a request in flight comes to an end;
\* the continuation of an await whose promise settled is run
FairLoad ==
    /\ WF_vars(Task)
    /\ WF_vars(\E k \in 1..Len(loads) : BlocksSettle(k) \/ DetailsSettle(k))
    /\ WF_vars(\E k \in 1..Len(loads) : Resume(k))

SpecLoad == Init /\ [][NextLoad]_vars /\ FairLoad

\* one of the two requests of load k was rejected
OneRejected(k) ==
    loads[k].bReq.status = "rejected" \/ loads[k].dReq.status = "rejected"

\* C23 (step part): the step that ends a load sets loading to false while
\* the component is mounted; blocks and pageDetails change only in a load
\* that resumed with none of its requests rejected
LoadEndStepC23 ==
    /\ \A k \in 1..Len(loads) :
          (loads[k].phase # "done" /\ loads'[k].phase = "done" /\ mounted)
              => ~loading'
    /\ (blocks' # blocks \/ pageDetails' # pageDetails)
          => pc.op = "resume" /\ ~OneRejected(pc.k)

\* C23: every started load comes to its end (again and again all the loads
\* started so far have ended), where it sets loading to false, whether its
\* requests are fulfilled, one of them is rejected or a call throws; a load
\* with a rejected request updates neither blocks nor pageDetails, even if
\* its other request succeeded
LoadEndsC23 ==
    /\ []<>(\A k \in 1..Len(loads) : loads[k].phase = "done")
    /\ [][LoadEndStepC23]_vars

\* C23 witness: a load resumed in its catch: the metadata request was
\* rejected, the block request had fetched the blocks of its article, and
\* the stored blocks are not this load's
WitnessC23 ==
    /\ mounted /\ pc.op = "resume" /\ pc.at = "setLoadingFalse"
    /\ loads[pc.k].dReq.status = "rejected"
    /\ loads[pc.k].bReq.status = "fulfilled"
    /\ loads[pc.k].bReq.value = Results(loads[pc.k].id)
    /\ blocks.ref # pc.k /\ pageDetails.ref # pc.k
    /\ loading


\* C24: for an instance whose chart changed while an earlier compile was in
\* flight, once no compile is in flight the slot shows the outcome of the
\* latest description: its diagram if it compiles, the error notice if not
LatestOutcomeShownC24 ==
    \A i \in Instances :
        (mermaid[i].mounted /\ mermaid[i].overlapped /\ mermaid[i].jobs = <<>>)
        => IF Compiles(mermaid[i].chart)
           THEN mermaid[i].html = Svg(mermaid[i].chart)
                /\ mermaid[i].error = NoError
           ELSE mermaid[i].html = Text(Notice) /\ mermaid[i].error = Notice

====
